---- MODULE Spec2Model ----
(***************************************************************************)
(* Anonymous usage reporter of the router (apollo-router/src/orbiter).     *)
(*                                                                         *)
(* Four specifications share this module:                                  *)
(*   SpecWalk       visit_config applied to one JSON document,             *)
(*   SpecUsage      the usage map built by                                 *)
(*                  send_anonymous_metrics_to_orbiter (plugin loop, then   *)
(*                  the command line argument loop),                       *)
(*   Spec           the factory decorator, its reporter threads, the       *)
(*                  machine-id file and the SESSION_ID singleton,          *)
(*   SpecRecording  Spec with the history of get_machine_id calls kept.    *)
(*                                                                         *)
(* Strings that take part in format!("{}.{}") are kept as the sequence of  *)
(* their dot-separated segments: "a.len" is <<"a", "len">>, and joining    *)
(* two strings with a dot is the concatenation of their segment lists.     *)
(***************************************************************************)
EXTENDS Integers, Sequences, FiniteSets, TLC

VARIABLES
    wDoc,       \* SpecWalk: the value handed to visit_config
    wRoot,      \* SpecWalk: the path handed to visit_config
    wUsage0,    \* SpecWalk: the usage map before the call
    wUsage,     \* SpecWalk: the usage map (after the call once wDone)
    wDone,      \* SpecWalk: visit_config has returned
    uUsage,     \* SpecUsage: the local usage of send_anonymous_metrics_to_orbiter
    uPrev,      \* SpecUsage: usage before the latest loop iteration
    uLast,      \* SpecUsage: what the latest loop iteration was handed
    uPhase,     \* SpecUsage: "plugins", "args" or "done"
    uSeen,      \* SpecUsage: plugin names and argument ids already iterated
    env,        \* Spec: APOLLO_TELEMETRY_DISABLED in the process environment
    file,       \* Spec: <tempdir>/.apollo_router_machine_id
    builds,     \* Spec: the calls of create so far, in order
    workers,    \* Spec: the reporter thread of each build
    session,    \* Spec: the SESSION_ID cell and how often it was initialised
    posts,      \* Spec: the bodies handed to the HTTP client
    debugLog,   \* Spec: the kinds of debug message logged so far
    calls,      \* SpecRecording: what each call of get_machine_id did
    recording   \* whether calls is kept (SpecRecording) or left empty (Spec)

walkVars == <<wDoc, wRoot, wUsage0, wUsage, wDone>>
usageVars == <<uUsage, uPrev, uLast, uPhase, uSeen>>
procVars == <<env, file, builds, workers, session, posts, debugLog, calls, recording>>
vars == <<walkVars, usageVars, procVars>>

\* ------------------------------------------------------------------ bounds
\* longest array of a generated document
MaxArr == 2

\* most raw values (and default values) of one command line argument
MaxVals == 2
\* most calls of create (the first build and the reloads) in one run
MaxBuilds == 3

\* ------------------------------------------------------ serde_json::Value
JNull == [t |-> "null"]
JBool(b) == [t |-> "bool", v |-> b]
JNum(n) == [t |-> "num", v |-> n]
JStr(s) == [t |-> "str", v |-> s]
JArr(a) == [t |-> "arr", v |-> a]
\* an object is the sequence of its <<key, value>> entries in iteration order
JObj(o) == [t |-> "obj", v |-> o]

\* serde_json::Map<String, Value> as a function from keys to values
EmptyMap == [k \in {} |-> JNull]
Insert(m, k, v) == [x \in (DOMAIN m) \cup {k} |-> IF x = k THEN v ELSE m[x]]

\* format!("configuration.{}", path)
ConfKey(path) == <<"configuration">> \o path
\* a length stored under the array's own key
LenKey_plain(path) == <<"configuration">> \o path
\* format!("configuration.{}.len", path)
LenKey(path) == <<"configuration">> \o path \o <<"len">>
\* format!("{}.{}", path, k)
ChildPath(path, k) == path \o k
\* the decimal text of an array index
IndexText(i) == <<"0", "1", "2", "3", "4", "5", "6", "7", "8", "9">>[i]
\* array elements walked under path.<index>
ElemPath_indexed(path, i) == path \o <<IndexText(i)>>
\* the path an array element is walked under: the array's own path
ElemPath(path, i) == path
\* a walk that stores the string itself
SetToken_leak(s) == JStr(s)
\* Value::String("set".to_string())
SetToken(s) == JStr("set")
\* a.len().into()
LenValue(a) == JNum(Len(a))

RECURSIVE visit_config(_, _, _)
RECURSIVE VisitElems(_, _, _, _)
RECURSIVE VisitEntries(_, _, _, _)

\* for v in a { visit_config(usage, path, v); }   from element i on
VisitElems(usage, path, a, i) ==
    IF i > Len(a) THEN usage
    ELSE VisitElems(visit_config(usage, ElemPath(path, i), a[i]), path, a, i + 1)

\* for (k, v) in o { visit_config(usage, &format!("{}.{}", path, k), v); }
VisitEntries(usage, path, o, i) ==
    IF i > Len(o) THEN usage
    ELSE VisitEntries(visit_config(usage, ChildPath(path, o[i][1]), o[i][2]),
                      path, o, i + 1)

visit_config(usage, path, value) ==
    CASE value.t = "null" -> usage
      [] value.t = "bool" -> Insert(usage, ConfKey(path), JBool(value.v))
      [] value.t = "num"  -> Insert(usage, ConfKey(path), JNum(value.v))
      [] value.t = "str"  -> Insert(usage, ConfKey(path), SetToken(value.v))
      [] value.t = "arr"  ->
            Insert(VisitElems(usage, path, value.v, 1), LenKey(path), LenValue(value.v))
      [] value.t = "obj"  -> VisitEntries(usage, path, value.v, 1)

\* -------------------------------------------------- documents of SpecWalk
Scalars == {JNull, JBool(TRUE), JNum(4), JStr("b")}
\* object keys: "a", "len" and "a.len"
Keys == {<<"a">>, <<"len">>, <<"a", "len">>}

SeqsUpTo(S, n) == UNION {[1..m -> S] : m \in 0..n}
ArraysOf(S) == {JArr(s) : s \in SeqsUpTo(S, MaxArr)}
Objects1(S) == {JObj(<<>>)} \cup {JObj(<< <<k, x>> >>) : k \in Keys, x \in S}
Objects2(S) ==
    UNION {{JObj(<< <<k1, x>>, <<k2, y>> >>) : k2 \in Keys \ {k1}, x \in S, y \in S} :
               k1 \in Keys}

\* what a generated array or object may hold
Inner ==
    Scalars \cup ArraysOf({JNum(4), JStr("b")}) \cup Objects1(Scalars)

\* the document of the unit test test_visit_config
TestEntries ==
    << <<<<"string_value">>, JStr("b")>>,
       <<<<"bool_value">>, JBool(TRUE)>>,
       <<<<"numeric_value">>, JNum(4)>> >>
TestDoc ==
    JObj(TestEntries \o
         << <<<<"nested_obj">>, JObj(TestEntries)>>,
            <<<<"nested_arr">>, JArr(<<JObj(TestEntries), JObj(TestEntries)>>)>> >>)

\* documents deeper than the generated ones
DeepDocs ==
    { TestDoc,
      JArr(<<JObj(<< <<<<"a">>, JArr(<<JNum(4)>>)>> >>),
             JObj(<< <<<<"a">>, JArr(<<JNum(4), JStr("b")>>)>> >>)>>),
      JArr(<<JObj(<< <<<<"a">>, JArr(<<JNum(4), JStr("b")>>)>> >>),
             JObj(<< <<<<"a">>, JArr(<<>>)>> >>)>>),
      JArr(<<JObj(<< <<<<"a">>, JArr(<<JStr("b")>>)>> >>),
             JObj(<< <<<<"a">>, JObj(<< <<<<"len">>, JBool(TRUE)>> >>)>> >>)>>),
      JObj(<< <<<<"a">>, JArr(<<JArr(<<JStr("b")>>), JArr(<<>>)>>)>>,
              <<<<"a", "len">>, JStr("b")>> >>),
      JObj(<< <<<<"a">>, JArr(<<JArr(<<JStr("b")>>), JArr(<<>>)>>)>>,
              <<<<"len">>, JArr(<<JNum(4), JStr("b")>>)>> >>) }

Docs == Inner \cup ArraysOf(Inner) \cup Objects1(Inner) \cup Objects2(Inner) \cup DeepDocs

Roots == {<<"root">>, <<"apollo", "a">>}

\* maps visit_config may be handed: empty, or holding entries of earlier walks
PriorMap(r) ==
    Insert(Insert(Insert(EmptyMap, ConfKey(r \o <<"a">>), JNum(7)),
                  LenKey(r), JNum(9)),
           <<"args", "config-path">>, JStr("set"))

\* ------------------------------------- the command line argument summary
\* Option<T>: None is <<>>, Some(x) is <<x>>
None == <<>>
Some(x) == <<x>>

\* format!("args.{}", a.get_id())
ArgKey(id) == <<"args">> \o id
\* a comparison of the lengths only
Differ_lengths(defaults, values) == Len(defaults) # Len(values)
\* defaults != values, on Vec<&OsStr>
Differ(defaults, values) == defaults # values

\* a summary without the branch for an argument that has no default
SummariseArg_nobranch(usage, a, raw) ==
    IF raw = None THEN usage
    ELSE IF Differ(a.defaults, raw[1])
        THEN Insert(usage, ArgKey(a.id), JStr("set"))
        ELSE usage

\* the body of the for_each closure: a is [id, defaults], raw is
\* matches.get_raw(a.get_id()) collected
SummariseArg(usage, a, raw) ==
    IF raw = None THEN usage
    ELSE LET values == raw[1]
         IN  IF Differ(a.defaults, values)
                 THEN Insert(usage, ArgKey(a.id), JStr("set"))
             ELSE IF a.defaults = <<>>
                 THEN Insert(usage, ArgKey(a.id), JBool(TRUE))
             ELSE usage

\* ------------------------------------------------------ inputs of SpecUsage
PluginNames == {<<"apollo", "headers">>, <<"apollo", "telemetry">>}
PluginDocs ==
    Scalars \cup
    { JArr(<<JStr("b"), JNum(4)>>),
      JObj(<< <<<<"a">>, JStr("b")>> >>),
      JObj(<< <<<<"a">>, JArr(<<JObj(<< <<<<"len">>, JStr("b")>> >>)>>)>> >>) }
ArgIds == {<<"config-path">>, <<"log-level">>}
ArgValues == {"info", "debug"}
ValueLists == SeqsUpTo(ArgValues, MaxVals)

NoIteration == [kind |-> "none"]

UsageIdle ==
    /\ uUsage = EmptyMap
    /\ uPrev = EmptyMap
    /\ uLast = NoIteration
    /\ uPhase = "off"
    /\ uSeen = {}

ProcIdle ==
    /\ env = None
    /\ file = [exists |-> FALSE, content |-> <<>>]
    /\ builds = <<>>
    /\ workers = <<>>
    /\ session = [cell |-> None, inits |-> 0]
    /\ posts = {}
    /\ debugLog = {}
    /\ calls = <<>>
    /\ recording = FALSE

WalkIdle ==
    /\ wDoc = JNull
    /\ wRoot = <<>>
    /\ wUsage0 = EmptyMap
    /\ wUsage = EmptyMap
    /\ wDone = TRUE

\* --------------------------------------------------------------- SpecUsage
\* let mut usage = serde_json::Map::new();
InitUsage ==
    /\ uUsage = EmptyMap
    /\ uPrev = EmptyMap
    /\ uLast = NoIteration
    /\ uPhase = "plugins"
    /\ uSeen = {}
    /\ WalkIdle
    /\ ProcIdle

\* one iteration of: for (name, config) in &configuration.apollo_plugins.plugins
VisitPlugin ==
    /\ uPhase = "plugins"
    /\ \E name \in PluginNames \ uSeen, config \in PluginDocs :
        /\ uUsage' = visit_config(uUsage, name, config)
        /\ uPrev' = uUsage
        /\ uLast' = [kind |-> "plugin", name |-> name, config |-> config]
        /\ uSeen' = uSeen \cup {name}
    /\ UNCHANGED <<uPhase, walkVars, procVars>>

\* the plugin loop ends; Opt::command().get_matches()
EndPlugins ==
    /\ uPhase = "plugins"
    /\ uPhase' = "args"
    /\ UNCHANGED <<uUsage, uPrev, uLast, uSeen, walkVars, procVars>>

\* one iteration of: Opt::command().get_arguments().for_each(|a| ...)
NextArg ==
    /\ uPhase = "args"
    /\ \E id \in ArgIds \ uSeen, defaults \in ValueLists,
          raw \in {None} \cup {Some(v) : v \in ValueLists} :
        /\ uUsage' = SummariseArg(uUsage, [id |-> id, defaults |-> defaults], raw)
        /\ uPrev' = uUsage
        /\ uLast' = [kind |-> "arg", id |-> id, defaults |-> defaults, raw |-> raw]
        /\ uSeen' = uSeen \cup {id}
    /\ UNCHANGED <<uPhase, walkVars, procVars>>

\* every argument was visited; usage moves into the UsageReport
EndArgs ==
    /\ uPhase = "args"
    /\ ArgIds \subseteq uSeen
    /\ uPhase' = "done"
    /\ UNCHANGED <<uUsage, uPrev, uLast, uSeen, walkVars, procVars>>

NextUsage == VisitPlugin \/ EndPlugins \/ NextArg \/ EndArgs
SpecUsage == InitUsage /\ [][NextUsage]_vars

\* ---------------------------------------------------------------- SpecWalk
InitWalk ==
    /\ UsageIdle
    /\ ProcIdle
    /\ wDoc \in Docs
    /\ wRoot \in Roots
    /\ wUsage0 \in {EmptyMap, PriorMap(wRoot)}
    /\ wUsage = wUsage0
    /\ wDone = FALSE

Walk ==
    /\ ~wDone
    /\ wUsage' = visit_config(wUsage, wRoot, wDoc)
    /\ wDone' = TRUE
    /\ UNCHANGED <<wDoc, wRoot, wUsage0, usageVars, procVars>>

NextWalk == Walk
SpecWalk == InitWalk /\ [][NextWalk]_vars

\* ------------------------------------------- the whole usage map of a report
RECURSIVE VisitPlugins(_, _, _)
\* for (name, config) in &configuration.apollo_plugins.plugins { ... }
VisitPlugins(usage, plugins, i) ==
    IF i > Len(plugins) THEN usage
    ELSE VisitPlugins(visit_config(usage, plugins[i][1], plugins[i][2]), plugins, i + 1)

RECURSIVE SummariseArgs(_, _, _)
\* Opt::command().get_arguments().for_each(...); cli[i] is [arg, raw]
SummariseArgs(usage, cli, i) ==
    IF i > Len(cli) THEN usage
    ELSE SummariseArgs(SummariseArg(usage, cli[i].arg, cli[i].raw), cli, i + 1)

BuildUsage(configuration, cli) ==
    SummariseArgs(VisitPlugins(EmptyMap, configuration, 1), cli, 1)

\* --------------------------------------------------------- inputs of Spec
\* the apollo plugins of the configuration create is handed, in map order
Configuration ==
    << <<<<"apollo", "headers">>, JObj(<< <<<<"all">>, JArr(<<JStr("b")>>)>> >>)>>,
       <<<<"apollo", "telemetry">>, JObj(<< <<<<"tracing">>, JBool(TRUE)>> >>)>> >>
\* the command line of the process
CommandLine ==
    << [arg |-> [id |-> <<"config-path">>, defaults |-> <<>>],
        raw |-> Some(<<"/etc/x.yaml">>)],
       [arg |-> [id |-> <<"log-level">>, defaults |-> <<"info">>],
        raw |-> Some(<<"info">>)] >>

\* values of APOLLO_TELEMETRY_DISABLED: unset, "", "1", "TRUE", "true"
EnvValues == {None, Some(""), Some("1"), Some("TRUE"), Some("true")}

\* Result<T, BoxError> of the delegate
Ok(x) == [ok |-> TRUE, v |-> x]
Err(e) == [ok |-> FALSE, v |-> e]
InnerResults == {Ok("factory"), Err("inner error")}

\* --------------------------------------------------------------- uuid, file
\* Uuid::new_v4() in get_machine_id of the thread of build b
NewMachineUuid(b) == b
\* Uuid::new_v4() of the n-th run of the SESSION_ID initialiser
NewSessionUuid(n) == 0 - n
\* id.to_string(): the hyphenated form
UuidToString(id) == <<"hyphenated", id>>
\* str::parse::<Uuid>(): the text of a uuid parses, nothing else does
Parse(text) ==
    IF Len(text) = 2 /\ text[1] = "hyphenated" THEN Some(text[2]) ELSE None

Absent == [exists |-> FALSE, content |-> <<>>]
Holding(text) == [exists |-> TRUE, content |-> text]

\* ------------------------------------------------------------------- create
\* env::var("APOLLO_TELEMETRY_DISABLED").unwrap_or_default()
EnvOrDefault(e) == IF e = None THEN "" ELSE e[1]
\* a check that takes more spellings than "true" for the opt-out
TelemetryEnabled_loose(value) == value \notin {"true", "TRUE", "1"}
\* ... != "true"
TelemetryEnabled(value) == value # "true"

\* a create that reports after every build, failed or not
CreateOutcome_always(inner, e) ==
    [ret |-> inner, reads |-> 1, spawned |-> TelemetryEnabled(EnvOrDefault(e))]

\* what create does with the delegate's result: the value it returns, how
\* often it reads the variable and whether it spawns a thread
CreateOutcome(inner, e) ==
    IF inner.ok
        THEN [ret |-> inner, reads |-> 1, spawned |-> TelemetryEnabled(EnvOrDefault(e))]
        ELSE [ret |-> inner, reads |-> 0, spawned |-> FALSE]

NoThread == [pc |-> "none", mid |-> None, sid |-> None]

\* what is remembered of one call of get_machine_id when calls are recorded:
\* what it found, how its write ended, whether its read failed, and the
\* threads whose call had returned when it began
NoCall == [found |-> "", wrote |-> "none", rfail |-> FALSE, before |-> {}]

\* threads whose get_machine_id has returned
PastMachineId == {x \in 1..Len(workers) : workers[x].pc \in {"usage", "send", "done"}}

InitProcess ==
    /\ env \in EnvValues
    /\ file \in {Absent, Holding(<<"garbage">>), Holding(UuidToString(0))}
    /\ builds = <<>>
    /\ workers = <<>>
    /\ session = [cell |-> None, inits |-> 0]
    /\ posts = {}
    /\ debugLog = {}
    /\ calls = <<>>
    /\ WalkIdle
    /\ UsageIdle

Init == InitProcess /\ recording = FALSE
InitRecording == InitProcess /\ recording = TRUE

\* OrbiterAbstractRouterServiceFactory::create, called in an environment
\* that holds e for APOLLO_TELEMETRY_DISABLED
Create ==
    /\ Len(builds) < MaxBuilds
    /\ \E inner \in InnerResults, e \in EnvValues :
        LET out == CreateOutcome(inner, e)
        IN  /\ env' = e
            /\ builds' = Append(builds,
                    [inner |-> inner, ret |-> out.ret, reads |-> out.reads,
                     optOut |-> (e = Some("true"))])
            /\ workers' = Append(workers,
                    IF out.spawned THEN [NoThread EXCEPT !.pc = "exists"] ELSE NoThread)
    /\ calls' = IF recording THEN Append(calls, NoCall) ELSE calls
    /\ UNCHANGED <<file, session, posts, debugLog, recording, walkVars, usageVars>>

\* get_machine_id: file.exists()
Exists ==
  \E b \in 1..Len(workers) :
    /\ workers[b].pc = "exists"
    /\ workers' = [workers EXCEPT ![b] =
            IF file.exists
                THEN [@ EXCEPT !.pc = "read"]
                ELSE [@ EXCEPT !.pc = "create", !.mid = Some(NewMachineUuid(b))]]
    /\ calls' = IF recording
                    THEN [calls EXCEPT ![b].before = PastMachineId,
                                       ![b].found = IF file.exists THEN "" ELSE "absent"]
                    ELSE calls
    /\ UNCHANGED <<env, file, builds, session, posts, debugLog, recording,
                   walkVars, usageVars>>

\* get_machine_id: read_to_string(..).unwrap_or_default().parse()
\*                     .unwrap_or_else(|_| Uuid::new_v4())
ReadFile ==
  \E b \in 1..Len(workers) :
    /\ workers[b].pc = "read"
    /\ \E ok \in BOOLEAN :
        LET text == IF ok THEN file.content ELSE <<>>
            parsed == Parse(text)
        IN  /\ workers' = [workers EXCEPT ![b] =
                    [@ EXCEPT !.pc = "usage",
                              !.mid = IF parsed = None THEN Some(NewMachineUuid(b))
                                      ELSE parsed]]
            /\ calls' = IF recording
                            THEN [calls EXCEPT ![b].rfail = ~ok,
                                    ![b].found = IF parsed = None THEN "unparseable"
                                                 ELSE "valid"]
                            ELSE calls
    /\ UNCHANGED <<env, file, builds, session, posts, debugLog, recording,
                   walkVars, usageVars>>

\* get_machine_id: std::fs::write opens the file, creating or truncating it
CreateFile ==
  \E b \in 1..Len(workers) :
    /\ workers[b].pc = "create"
    /\ \E ok \in BOOLEAN :
        IF ok
            THEN /\ file' = Holding(<<>>)
                 /\ workers' = [workers EXCEPT ![b].pc = "write_all"]
                 /\ debugLog' = debugLog
                 /\ calls' = calls
            ELSE /\ file' = file
                 /\ workers' = [workers EXCEPT ![b].pc = "usage"]
                 /\ debugLog' = debugLog \cup {"unable to write anonymous machine id"}
                 /\ calls' = IF recording THEN [calls EXCEPT ![b].wrote = "failed"]
                             ELSE calls
    /\ UNCHANGED <<env, builds, session, posts, recording, walkVars, usageVars>>

\* get_machine_id: std::fs::write writes the text; an error is logged
WriteAll ==
  \E b \in 1..Len(workers) :
    /\ workers[b].pc = "write_all"
    /\ workers' = [workers EXCEPT ![b].pc = "usage"]
    /\ \E ok \in BOOLEAN :
        IF ok
            THEN /\ file' = Holding(UuidToString(workers[b].mid[1]))
                 /\ debugLog' = debugLog
                 /\ calls' = IF recording THEN [calls EXCEPT ![b].wrote = "ok"] ELSE calls
            ELSE /\ file' = file
                 /\ debugLog' = debugLog \cup {"unable to write anonymous machine id"}
                 /\ calls' = IF recording THEN [calls EXCEPT ![b].wrote = "failed"]
                             ELSE calls
    /\ UNCHANGED <<env, builds, session, posts, recording, walkVars, usageVars>>

\* a SESSION_ID whose initialiser runs at every access
Deref_fresh(s) ==
    [cell |-> Some(NewSessionUuid(s.inits + 1)), inits |-> s.inits + 1]

\* *SESSION_ID: lazy_static runs the initialiser once, under a Once
Deref(s) ==
    IF s.cell = None
        THEN [cell |-> Some(NewSessionUuid(s.inits + 1)), inits |-> s.inits + 1]
        ELSE s

\* send_anonymous_metrics_to_orbiter from get_os() to the UsageReport
Assemble ==
  \E b \in 1..Len(workers) :
    /\ workers[b].pc = "usage"
    /\ session' = Deref(session)
    /\ workers' = [workers EXCEPT ![b].pc = "send", ![b].sid = session'.cell]
    /\ UNCHANGED <<env, file, builds, posts, debugLog, calls, recording,
                   walkVars, usageVars>>

\* the usage map of every report: one configuration, one command line
ReportedUsage == BuildUsage(Configuration, CommandLine)

UsageReport(b) ==
    [build |-> b, machine_id |-> workers[b].mid[1], session_id |-> workers[b].sid[1],
     usage |-> ReportedUsage]

\* send(body): the POST succeeds, or fails and the error is logged at debug
Send ==
  \E b \in 1..Len(workers) :
    /\ workers[b].pc = "send"
    /\ posts' = posts \cup {UsageReport(b)}
    /\ workers' = [workers EXCEPT ![b].pc = "done"]
    /\ \E ok \in BOOLEAN :
        debugLog' = IF ok THEN debugLog
                    ELSE debugLog \cup {"failed to send anonymous usage"}
    /\ UNCHANGED <<env, file, builds, session, calls, recording, walkVars, usageVars>>

Next ==
    \/ Create
    \/ Exists
    \/ ReadFile
    \/ CreateFile
    \/ WriteAll
    \/ Assemble
    \/ Send

Spec == Init /\ [][Next]_vars
\* the same program, with the calls of get_machine_id recorded
SpecRecording == InitRecording /\ [][Next]_vars

\* ======================================================== claims, SpecWalk
\* The per-variant rules of the walk, written as the list of writes they ask
\* for, in document order.
RuleKey(p) == <<"configuration">> \o p
RECURSIVE RuleWrites(_, _)
RECURSIVE RuleElems(_, _, _)
RECURSIVE RuleEntries(_, _, _)
RuleElems(p, a, i) ==
    IF i > Len(a) THEN <<>> ELSE RuleWrites(p, a[i]) \o RuleElems(p, a, i + 1)
RuleEntries(p, o, i) ==
    IF i > Len(o) THEN <<>>
    ELSE RuleWrites(p \o o[i][1], o[i][2]) \o RuleEntries(p, o, i + 1)
RuleWrites(p, value) ==
    CASE value.t = "null" -> <<>>
      [] value.t \in {"bool", "num"} -> << <<RuleKey(p), value>> >>
      [] value.t = "str" -> << <<RuleKey(p), [t |-> "str", v |-> "set"]>> >>
      [] value.t = "arr" ->
            RuleElems(p, value.v, 1)
                \o << <<RuleKey(p) \o <<"len">>, [t |-> "num", v |-> Len(value.v)]>> >>
      [] value.t = "obj" -> RuleEntries(p, value.v, 1)

RuleWritten(log) == {log[i][1] : i \in 1..Len(log)}
RuleLast(log, k) ==
    LET at == {i \in 1..Len(log) : log[i][1] = k}
    IN  log[CHOOSE i \in at : \A j \in at : j <= i][2]
\* the map after the writes of log, later writes overwriting earlier ones
RuleResult(m0, log) ==
    [k \in (DOMAIN m0) \cup RuleWritten(log) |->
        IF k \in RuleWritten(log) THEN RuleLast(log, k) ELSE m0[k]]

\* what the walk of the unit test's document under "root" leaves in an empty map
TestSnapshot ==
    LET leaf(p) ==
            {<<RuleKey(p \o <<"string_value">>), [t |-> "str", v |-> "set"]>>,
             <<RuleKey(p \o <<"bool_value">>), [t |-> "bool", v |-> TRUE]>>,
             <<RuleKey(p \o <<"numeric_value">>), [t |-> "num", v |-> 4]>>}
        pairs ==
            leaf(<<"root">>) \cup leaf(<<"root", "nested_obj">>)
                \cup leaf(<<"root", "nested_arr">>)
                \cup {<<RuleKey(<<"root", "nested_arr", "len">>), [t |-> "num", v |-> 2]>>}
    IN  [k \in {q[1] : q \in pairs} |-> (CHOOSE q \in pairs : q[1] = k)[2]]

\* C10: after visit_config the usage map holds exactly the entries of the
\* per-variant rules (bool and number leaves verbatim, "set" for a string,
\* nothing for null or for an object's own path, array elements under the
\* array's path with later elements overwriting earlier ones, then .len),
\* and every other entry of the map is unchanged; the unit test's document
\* walked under "root" gives the ten entries of its snapshot.
C10_ShapeWalk ==
    wDone =>
        /\ wUsage = RuleResult(wUsage0, RuleWrites(wRoot, wDoc))
        /\ (wDoc = TestDoc /\ wRoot = <<"root">> /\ wUsage0 = EmptyMap)
                => wUsage = TestSnapshot

\* a walk in which a later array element overwrote an earlier one's entry and
\* an entry of the earlier map survived
C10_Witness ==
    /\ wDone
    /\ wUsage0 # EmptyMap
    /\ wDoc = JArr(<<JObj(<< <<<<"a">>, JBool(TRUE)>> >>),
                     JObj(<< <<<<"a">>, JStr("b")>> >>)>>)
    /\ wUsage[RuleKey(wRoot \o <<"a">>)] = [t |-> "str", v |-> "set"]
    /\ wUsage[<<"args", "config-path">>] = wUsage0[<<"args", "config-path">>]

\* the arrays of a document, each with its dotted path and its length
RECURSIVE RuleArrays(_, _)
RECURSIVE RuleArraysIn(_, _, _, _)
RuleArraysIn(p, kind, s, i) ==
    IF i > Len(s) THEN <<>>
    ELSE (IF kind = "arr" THEN RuleArrays(p, s[i])
          ELSE RuleArrays(p \o s[i][1], s[i][2]))
            \o RuleArraysIn(p, kind, s, i + 1)
RuleArrays(p, value) ==
    CASE value.t = "arr" ->
            << <<p, Len(value.v)>> >> \o RuleArraysIn(p, "arr", value.v, 1)
      [] value.t = "obj" -> RuleArraysIn(p, "obj", value.v, 1)
      [] OTHER -> <<>>

\* the dotted paths of the non-null scalar leaves of a document
RECURSIVE RuleLeaves(_, _)
RuleLeaves(p, value) ==
    CASE value.t = "arr" ->
            UNION {RuleLeaves(p, value.v[i]) : i \in 1..Len(value.v)}
      [] value.t = "obj" ->
            UNION {RuleLeaves(p \o value.v[i][1], value.v[i][2]) : i \in 1..Len(value.v)}
      [] value.t = "null" -> {}
      [] OTHER -> {p}

\* the decimal strings an array index would be written as
IndexStrings == {"0", "1", "2", "3", "4", "5", "6", "7", "8", "9"}
NoIndexInKeys ==
    \A k \in (DOMAIN wUsage) \ (DOMAIN wUsage0) :
        \A i \in 1..Len(k) : k[i] \notin IndexStrings

\* C9 as stated: every array at dotted path P with length k, nested and
\* path-sharing arrays included, leaves configuration.P.len = k in the map,
\* and no key holds an array index.
C9_AsStated ==
    wDone =>
        /\ \A i \in 1..Len(RuleArrays(wRoot, wDoc)) :
                LET e == RuleArrays(wRoot, wDoc)[i]
                IN  /\ RuleKey(e[1]) \o <<"len">> \in DOMAIN wUsage
                    /\ wUsage[RuleKey(e[1]) \o <<"len">>] = [t |-> "num", v |-> e[2]]
        /\ NoIndexInKeys

\* C9 amended: every array at dotted path P leaves the key configuration.P.len
\* in the map; its value is the array's length k whenever no other array of
\* the document has the same dotted path and no scalar leaf has the dotted
\* path P.len; no key holds an array index.
C9_ArrayLen ==
    wDone =>
        LET arrays == RuleArrays(wRoot, wDoc)
        IN  /\ \A i \in 1..Len(arrays) :
                    LET e == arrays[i]
                        alone ==
                            /\ \A j \in 1..Len(arrays) : arrays[j][1] = e[1] => j = i
                            /\ e[1] \o <<"len">> \notin RuleLeaves(wRoot, wDoc)
                    IN  /\ RuleKey(e[1]) \o <<"len">> \in DOMAIN wUsage
                        /\ alone =>
                            wUsage[RuleKey(e[1]) \o <<"len">>] = [t |-> "num", v |-> e[2]]
            /\ NoIndexInKeys

\* a walked document with an array of two elements alone at its path beside
\* two arrays that share a path
C9_Witness ==
    /\ wDone
    /\ wDoc = JObj(<< <<<<"a">>, JArr(<<JArr(<<JStr("b")>>), JArr(<<>>)>>)>>,
                      <<<<"len">>, JArr(<<JNum(4), JStr("b")>>)>> >>)
    /\ wUsage[RuleKey(wRoot \o <<"len", "len">>)] = [t |-> "num", v |-> 2]
    /\ wUsage[RuleKey(wRoot \o <<"a", "len">>)] = [t |-> "num", v |-> 2]

\* ======================================================= claims, SpecUsage
IsShapeOnly(v) == v.t \in {"bool", "num"} \/ (v.t = "str" /\ v.v = "set")

\* C2: every value of the usage map built by
\* send_anonymous_metrics_to_orbiter is a boolean, a number or the string
\* "set"; no string of the document or of the command line, and no array,
\* object or null, is stored.
C2_Anonymity == \A k \in DOMAIN uUsage : IsShapeOnly(uUsage[k])

\* a finished usage map that holds "set" for a string leaf of a plugin's
\* configuration, a number, and an entry for a command line argument
C2_Witness ==
    /\ uPhase = "done"
    /\ \E k \in DOMAIN uUsage : k[1] = "configuration" /\ uUsage[k].t = "str"
    /\ \E k \in DOMAIN uUsage : uUsage[k].t = "num"
    /\ \E k \in DOMAIN uUsage : k[1] = "args" /\ uUsage[k].t = "str"

\* element-wise equality of two ordered lists
SameLists(x, y) == Len(x) = Len(y) /\ \A i \in 1..Len(x) : x[i] = y[i]
SetValue == [t |-> "str", v |-> "set"]
TrueValue == [t |-> "bool", v |-> TRUE]
LastKey == <<"args">> \o uLast.id

\* C7 as stated: an argument with no default values whose raw values are
\* present gets args.<id> = true.
C7_AsStated ==
    (uLast.kind = "arg" /\ uLast.defaults = <<>> /\ uLast.raw # <<>>) =>
        (LastKey \in DOMAIN uUsage /\ uUsage[LastKey] = TrueValue)

\* C7 amended: an argument with no default values whose raw values are
\* present gets args.<id> = "set" when the raw value list is not empty, and
\* args.<id> = true (the boolean) when the raw value list is empty.
C7_NoDefault ==
    (uLast.kind = "arg" /\ uLast.defaults = <<>> /\ uLast.raw # <<>>) =>
        /\ LastKey \in DOMAIN uUsage
        /\ uLast.raw[1] # <<>> => uUsage[LastKey] = SetValue
        /\ uLast.raw[1] = <<>> => uUsage[LastKey] = TrueValue

\* an argument without defaults that is present with no raw value
C7_Witness ==
    /\ uLast.kind = "arg" /\ uLast.defaults = <<>> /\ uLast.raw = <<<<>>>>
    /\ uUsage[LastKey] = TrueValue

\* C8: absent raw values emit nothing; raw values equal, element by element,
\* to a non-empty default list emit nothing; raw values that differ from a
\* non-empty default list emit args.<id> = "set"; an argument with no default
\* for which a value was supplied emits args.<id> = "set".
C8_SetVersusDefault ==
    uLast.kind = "arg" =>
        /\ uLast.raw = <<>> => uUsage = uPrev
        /\ (uLast.raw # <<>> /\ uLast.defaults # <<>>
                /\ SameLists(uLast.raw[1], uLast.defaults)) => uUsage = uPrev
        /\ (uLast.raw # <<>> /\ uLast.defaults # <<>>
                /\ ~SameLists(uLast.raw[1], uLast.defaults)) =>
              (LastKey \in DOMAIN uUsage /\ uUsage[LastKey] = SetValue)
        /\ (uLast.raw # <<>> /\ uLast.defaults = <<>> /\ uLast.raw[1] # <<>>) =>
              (LastKey \in DOMAIN uUsage /\ uUsage[LastKey] = SetValue)

\* log-level with default info and the value debug was summarised as "set"
C8_Witness ==
    /\ uLast.kind = "arg" /\ uLast.id = <<"log-level">>
    /\ uLast.defaults = <<"info">> /\ uLast.raw = <<<<"debug">>>>
    /\ uUsage[LastKey] = SetValue
    /\ LastKey \notin DOMAIN uPrev

\* ============================================================ claims, Spec
Built == 1..Len(builds)
PostsOf(b) == {r \in posts : r.build = b}

\* C1: a successful build reads APOLLO_TELEMETRY_DISABLED once; when it equals
\* "true" the build has no thread (so no write of the machine-id file) and no
\* POST; for any other value, unset included, the build has a thread.
C1_OptOut ==
    /\ \A b \in Built :
        builds[b].inner.ok =>
            /\ builds[b].reads = 1
            /\ builds[b].optOut => (workers[b] = NoThread /\ PostsOf(b) = {})
            /\ ~builds[b].optOut => workers[b].pc # "none"
    /\ builds # <<>> => (builds[Len(builds)].optOut <=> env = <<"true">>)

\* an opted-out build with nothing reported, then a build under "TRUE" whose
\* thread has posted its report
C1_Witness ==
    /\ Len(builds) = 2
    /\ builds[1].inner.ok /\ builds[1].optOut /\ workers[1].pc = "none"
    /\ builds[2].inner.ok /\ env = <<"TRUE">> /\ workers[2].pc = "done"
    /\ PostsOf(2) # {}

\* C3: create returns what the delegate returned; a failed build has no
\* thread and no report, and every report belongs to a build that succeeded;
\* the value returned stays what it was while the thread runs, fails to send
\* or never finishes.
C3_ErrorSurface ==
    /\ \A b \in Built :
        /\ builds[b].ret = builds[b].inner
        /\ ~builds[b].inner.ok => (workers[b] = NoThread /\ PostsOf(b) = {})
    /\ \A r \in posts : r.build \in Built /\ builds[r.build].inner.ok

\* a failed build, a build that returned its factory while its thread has not
\* sent yet, and a build whose send failed
C3_Witness ==
    /\ \E b \in Built : ~builds[b].inner.ok /\ builds[b].ret = [ok |-> FALSE, v |-> "inner error"]
    /\ \E b \in Built :
        /\ builds[b].ret = [ok |-> TRUE, v |-> "factory"]
        /\ workers[b].pc = "send"
    /\ "failed to send anonymous usage" \in debugLog

\* C6: SESSION_ID is initialised at most once, and every report assembled in
\* the process carries the same session_id.
C6_SessionOnce ==
    /\ session.inits <= 1
    /\ \A r1 \in posts, r2 \in posts : r1.session_id = r2.session_id
    /\ \A b \in Built : workers[b].sid # <<>> => workers[b].sid = session.cell

\* one report posted while two more threads hold a report not yet sent
C6_Witness ==
    /\ posts # {}
    /\ \E b1 \in Built, b2 \in Built :
        b1 # b2 /\ workers[b1].pc = "send" /\ workers[b2].pc = "send"

\* =================================================== claims, SpecRecording
Returned == PastMachineId
\* the call of b found the file absent, or read text that is no uuid
FoundNoId(b) ==
    calls[b].found = "absent" \/ (calls[b].found = "unparseable" /\ ~calls[b].rfail)

\* C4 as stated: a call of get_machine_id that finds the file absent or
\* unparseable writes its fresh uuid back; and when that call ran alone and
\* its write did not fail, the file then holds the uuid and the next call,
\* run alone after it, returns the same uuid.
C4_AsStated ==
    /\ \A b \in Returned : FoundNoId(b) => calls[b].wrote # "none"
    /\ \A b1 \in Returned, b2 \in Returned :
        ( /\ calls[b1].before = {} /\ calls[b2].before = {b1}
          /\ \A x \in Built \ {b1, b2} : workers[x].pc \in {"none", "exists"}
          /\ FoundNoId(b1) /\ calls[b1].wrote # "failed" /\ ~calls[b2].rfail )
        => /\ file.content = <<"hyphenated", workers[b1].mid[1]>>
           /\ workers[b2].mid = workers[b1].mid

\* C5 as stated: once a thread has completed a successful write of a uuid M,
\* every call of get_machine_id that begins afterwards (and whose read of the
\* preserved file does not fail) returns M.
C5_AsStated ==
    \A b \in Returned :
        ~calls[b].rfail =>
            \A x \in calls[b].before :
                calls[x].wrote = "ok" => workers[b].mid = workers[x].mid

====
